---- MODULE Spec2Model ----
(***************************************************************************)
(* Model of frontend/components/UploadCard.tsx: the label normalizer       *)
(* (extractRootCategory), the front-end aggregation (deriveMajor), the     *)
(* image resize / high-DPR canvas helpers and the asynchronous upload      *)
(* pipeline (handleFile) with the component state it writes.               *)
(*                                                                         *)
(* Strings are sequences of tokens.  A token is one character (a dash, a   *)
(* space, an ordinary character) or an indivisible word standing for a     *)
(* fixed multi-character string:                                           *)
(*   "HYPHEN"  '-'  (U+002D)     "FWHYPHEN" fullwidth hyphen (U+FF0D)      *)
(*   "EMDASH"  em dash (U+2014)  "SP" a whitespace character               *)
(*   "X"       a character that occurs in none of the words below          *)
(*   "OTHER"      qi-ta la-ji   (other waste, canonical spelling)          *)
(*   "OTHER_ALT1" qi-ta' la-ji  (other waste, first alternate spelling)    *)
(*   "OTHER_ALT2" qi-yu la-ji   (other waste, second alternate spelling)   *)
(*   "RECY_SHORT" ke-hui-shou   (recyclable, short form)                   *)
(*   "RECYCLABLE" ke-hui-shou-wu (recyclable, canonical)                   *)
(*   "KITCHEN"    chu-yu la-ji  (kitchen waste)                            *)
(*   "HAZARD"     you-hai la-ji (hazardous waste)                          *)
(* Numbers that JavaScript computes in floating point are modelled as      *)
(* exact rationals (numerator / denominator of naturals).                  *)
(***************************************************************************)
EXTENDS Integers, Sequences, FiniteSets, TLC

VARIABLES
    loading,      \* useState(false)
    detections,   \* useState<Detection[]>([])
    major,        \* useState<string | null>(null)
    scores,       \* useState<Record<string, number> | null>(null)
    hasImage,     \* useState(false)
    canvas,       \* the visible <canvas> behind canvasRef
    pipes,        \* one record per handleFile invocation (its locals and position)
    started,      \* number of handleFile invocations so far
    dpr,          \* window.devicePixelRatio
    shownBy,      \* history: the invocation that last wrote detections/major/scores (0: none)
    divByZero,    \* history: a division by a zero source dimension has been evaluated
    afterReset,   \* history: reset has run and no file has been picked or dropped since
    recyclable,   \* useState<boolean | null>(null) of the earlier UploadCard
    arg,          \* argument of the pure function under test
    ret           \* its result

vars == <<loading, detections, major, scores, hasImage, canvas, pipes, started,
          dpr, shownBy, divByZero, arg, ret, afterReset, recyclable>>

compVars == <<loading, detections, major, scores, hasImage, canvas, pipes, started,
              dpr, shownBy, divByZero, afterReset, recyclable>>

\* ------------------------------------------------------------------ bounds

MaxLabelLen == 3
MaxDets == 3
MaxUploads == 2
MaxDim == 6
MaxCoord == 6

\* ------------------------------------------------------------------ strings

Dashes == {"HYPHEN", "FWHYPHEN", "EMDASH"}

Words == {"OTHER", "OTHER_ALT1", "OTHER_ALT2", "RECY_SHORT", "RECYCLABLE",
          "KITCHEN", "HAZARD"}

Tokens == Dashes \cup {"SP", "X"} \cup Words

Null == <<"NULL">>

Pending == <<"PENDING">>

Str(w) == <<w>>

\* The strings (arrays) of at most n elements of S.
SeqsUpTo(S, n) == UNION {[1..m -> S] : m \in 0..n}

Labels == SeqsUpTo(Tokens, MaxLabelLen)

\* String.prototype.split(/[-－—]+/): the pieces between maximal runs of dashes.
RECURSIVE SplitFrom(_, _, _, _)
SplitFrom(s, i, cur, inRun) ==
    IF i > Len(s) THEN <<cur>>
    ELSE IF s[i] \in Dashes
         THEN IF inRun THEN SplitFrom(s, i + 1, cur, TRUE)
              ELSE <<cur>> \o SplitFrom(s, i + 1, <<>>, TRUE)
         ELSE SplitFrom(s, i + 1, Append(cur, s[i]), FALSE)

SplitDashes(s) == SplitFrom(s, 1, <<>>, FALSE)

\* String.prototype.trim()
RECURSIVE TrimStart(_)
TrimStart(s) ==
    IF s # <<>> /\ Head(s) = "SP" THEN TrimStart(Tail(s)) ELSE s

RECURSIVE TrimEnd(_)
TrimEnd(s) ==
    IF s # <<>> /\ s[Len(s)] = "SP" THEN TrimEnd(SubSeq(s, 1, Len(s) - 1)) ELSE s

Trim(s) == TrimEnd(TrimStart(s))

extractRootCategory_noTrim(name) ==
    LET head == SplitDashes(name)[1]
    IN  IF head = Str("OTHER_ALT1") \/ head = Str("OTHER_ALT2") THEN Str("OTHER")
        ELSE IF head = Str("RECY_SHORT") THEN Str("RECYCLABLE")
        ELSE IF head # <<>> THEN head ELSE name

extractRootCategory(name) ==
    LET head == Trim(SplitDashes(name)[1])
    IN  IF head = Str("OTHER_ALT1") \/ head = Str("OTHER_ALT2") THEN Str("OTHER")
        ELSE IF head = Str("RECY_SHORT") THEN Str("RECYCLABLE")
        ELSE IF head # <<>> THEN head ELSE name

\* ------------------------------------------------------------------ deriveMajor

\* A confidence is a number of halves (0, 1, 2 for 0, 0.5, 1.0); -1 stands for a
\* missing (undefined / NaN) confidence, which `confidence || 0` turns into 0.
OrZero(c) == IF c < 0 THEN 0 ELSE c

\* Map.get(k) ?? 0 and Map.set(k, v) on a Map kept as its entries in insertion order.
MapHas(m, k) == \E j \in 1..Len(m) : m[j].k = k

MapGetOr0(m, k) ==
    IF MapHas(m, k) THEN m[CHOOSE j \in 1..Len(m) : m[j].k = k].v ELSE 0

MapSet(m, k, v) ==
    IF MapHas(m, k)
    THEN [j \in 1..Len(m) |-> IF m[j].k = k THEN [k |-> k, v |-> v] ELSE m[j]]
    ELSE Append(m, [k |-> k, v |-> v])

RECURSIVE SumsFrom_overwrite(_, _, _, _)
SumsFrom_overwrite(dets, roots, i, sums) ==
    IF i > Len(dets) THEN sums
    ELSE SumsFrom_overwrite(dets, roots, i + 1,
                            MapSet(sums, roots[i], OrZero(dets[i].confidence)))

RECURSIVE SumsFrom(_, _, _, _)
SumsFrom(dets, roots, i, sums) ==
    IF i > Len(dets) THEN sums
    ELSE SumsFrom(dets, roots, i + 1,
                  MapSet(sums, roots[i], MapGetOr0(sums, roots[i]) + OrZero(dets[i].confidence)))

RECURSIVE BestFrom(_, _, _, _)
BestFrom(sums, j, best, bestScore) ==
    IF j > Len(sums) THEN best
    ELSE IF sums[j].v > bestScore
         THEN BestFrom(sums, j + 1, sums[j].k, sums[j].v)
         ELSE BestFrom(sums, j + 1, best, bestScore)

deriveMajor_bestScore0(dets) ==
    IF Len(dets) = 0 THEN Null
    ELSE LET roots == [i \in 1..Len(dets) |-> extractRootCategory(dets[i].class_name)]
             uniq  == {roots[i] : i \in 1..Len(dets)}
         IN  IF Cardinality(uniq) = 1 THEN roots[1]
             ELSE BestFrom(SumsFrom(dets, roots, 1, <<>>), 1, Null, 0)

deriveMajor(dets) ==
    IF Len(dets) = 0 THEN Null
    ELSE LET roots == [i \in 1..Len(dets) |-> extractRootCategory(dets[i].class_name)]
             uniq  == {roots[i] : i \in 1..Len(dets)}
         IN  IF Cardinality(uniq) = 1 THEN roots[1]
             ELSE BestFrom(SumsFrom(dets, roots, 1, <<>>), 1, Null, -1)

\* ------------------------------------------------------------------ geometry

Max(a, b) == IF a >= b THEN a ELSE b

Min(a, b) == IF a <= b THEN a ELSE b

Abs(a) == IF a < 0 THEN -a ELSE a

\* Math.round(n / d) for n >= 0, d > 0 (halves round up).
RoundDiv(n, d) == (2 * n + d) \div (2 * d)

\* Math.floor(n / d), used by the mutants.
FloorDiv(n, d) == n \div d

\* Math.min(1, maxWidth / naturalWidth) as a fraction; maxWidth / 0 is Infinity.
Ratio(naturalWidth, maxWidth) ==
    IF naturalWidth = 0 \/ maxWidth >= naturalWidth
    THEN [n |-> 1, d |-> 1]
    ELSE [n |-> maxWidth, d |-> naturalWidth]

resizeImageCanvas_floor(naturalWidth, naturalHeight, maxWidth) ==
    LET ratio == Ratio(naturalWidth, maxWidth)
    IN  [width  |-> FloorDiv(naturalWidth * ratio.n, ratio.d),
         height |-> FloorDiv(naturalHeight * ratio.n, ratio.d)]

resizeImageCanvas(naturalWidth, naturalHeight, maxWidth) ==
    LET ratio == Ratio(naturalWidth, maxWidth)
    IN  [width  |-> RoundDiv(naturalWidth * ratio.n, ratio.d),
         height |-> RoundDiv(naturalHeight * ratio.n, ratio.d)]

NoImage == [by |-> 0, w |-> 0, h |-> 0]

\* Assigning canvas.width / canvas.height clears the bitmap and resets the context.
drawHighDPRCanvas(c, width, height) ==
    LET r == IF dpr = 0 THEN 1 ELSE dpr
    IN  [styleW |-> width, styleH |-> height,
         width  |-> width * r, height |-> height * r,
         transform |-> r, lineWidth |-> 1, image |-> NoImage, strokes |-> <<>>]

\* ctx.clearRect(0, 0, w, h) in user space: everything is erased when the rectangle
\* covers the bitmap; otherwise the strokes lying wholly inside it are.
clearRect(c, w, h) ==
    IF w * c.transform >= c.width /\ h * c.transform >= c.height
    THEN [c EXCEPT !.image = NoImage, !.strokes = <<>>]
    ELSE LET inside(s) == s.x + s.w <= w /\ s.y + s.h <= h
             keep == {j \in 1..Len(c.strokes) : ~inside(c.strokes[j])}
             RECURSIVE Kept(_)
             Kept(j) == IF j > Len(c.strokes) THEN <<>>
                        ELSE IF j \in keep THEN <<c.strokes[j]>> \o Kept(j + 1)
                        ELSE Kept(j + 1)
         IN  [c EXCEPT !.strokes = Kept(1)]

\* The literals of the stroke width and of the label chip.
LineWidthDivisor == 200

MinLineWidth == 2

ChipRise == 18

TextPadX == 4

TextBaseline == 12

ChipHeight == 16

onPick_TextRise == 5

onPick_MaxWidth == 640

LineWidth_floor(c) ==
    Max(MinLineWidth, FloorDiv(Min(c.width, c.height), dpr * LineWidthDivisor))

\* Math.max(2, Math.round(Math.min(canvas.width, canvas.height) / (devicePixelRatio * 200)))
LineWidth(c) ==
    Max(MinLineWidth, RoundDiv(Min(c.width, c.height), dpr * LineWidthDivisor))

ScaleRound_floor(v, scale) == FloorDiv(v * scale.n, scale.d)

ScaleRound_ceil(v, scale) == FloorDiv(v * scale.n + scale.d - 1, scale.d)

\* Math.round(v * scale) with scale = n / d.
ScaleRound(v, scale) == RoundDiv(v * scale.n, scale.d)

\* The strokeRect, fillRect (label chip) and fillText calls of one detection
\* (user-space arguments).
StrokeOf(d, scaleX, scaleY, i) ==
    LET sx1 == ScaleRound(d.bbox[1], scaleX)
        sy1 == ScaleRound(d.bbox[2], scaleY)
        sx2 == ScaleRound(d.bbox[3], scaleX)
        sy2 == ScaleRound(d.bbox[4], scaleY)
        ty  == Max(0, sy1 - ChipRise)
    IN  [x |-> sx1, y |-> sy1, w |-> sx2 - sx1, h |-> sy2 - sy1, by |-> i,
         chipX |-> sx1, chipY |-> ty, textX |-> sx1 + TextPadX, textY |-> ty + TextBaseline]

\* ------------------------------------------------------------------ component

NullScores == [isNull |-> TRUE, entries |-> <<>>]

IdlePipe == [pc |-> "idle", outcome |-> "", nw |-> 0, nh |-> 0, targetCssW |-> 0,
             tmpW |-> 0, tmpH |-> 0,
             scaleX |-> [n |-> 0, d |-> 1], scaleY |-> [n |-> 0, d |-> 1],
             major_category |-> Null]

Uploads == DOMAIN pipes

\* The state after the component has mounted, with room for n handleFile invocations.
CompInit(n, ratios) ==
    /\ loading = FALSE
    /\ detections = <<>>
    /\ major = Null
    /\ scores = NullScores
    /\ hasImage = FALSE
    /\ canvas = [styleW |-> 0, styleH |-> 0, width |-> 300, height |-> 150,
                 transform |-> 1, lineWidth |-> 1, image |-> NoImage, strokes |-> <<>>]
    /\ pipes = [i \in 1..n |-> IdlePipe]
    /\ started = 0
    /\ dpr \in ratios
    /\ shownBy = 0
    /\ divByZero = FALSE
    /\ afterReset = FALSE
    /\ recyclable = "null"

\* onPick / onDrop with a file: handleFile up to its first await.
StartUpload ==
    /\ started < Cardinality(Uploads)
    /\ started' = started + 1
    /\ loading' = TRUE
    /\ scores' = NullScores
    /\ pipes' = [pipes EXCEPT ![started + 1].pc = "load"]
    /\ afterReset' = FALSE
    /\ UNCHANGED <<detections, major, hasImage, canvas, dpr, shownBy, divByZero, arg, ret,
                   recyclable>>

\* img.onload fires: the image has naturalWidth x naturalHeight, the container is
\* clientWidth wide; resizeImageCanvas, then toBlob is requested.
ImgLoaded(i, naturalWidth, naturalHeight, clientWidth) ==
    /\ pipes[i].pc = "load"
    /\ LET targetCssW == Max(1, clientWidth)
           tmp == resizeImageCanvas(naturalWidth, naturalHeight, targetCssW)
       IN  pipes' = [pipes EXCEPT ![i].pc = "blob",
                                  ![i].nw = naturalWidth, ![i].nh = naturalHeight,
                                  ![i].targetCssW = targetCssW,
                                  ![i].tmpW = tmp.width, ![i].tmpH = tmp.height]
    /\ divByZero' = (divByZero \/ naturalWidth = 0)
    /\ UNCHANGED <<loading, detections, major, scores, hasImage, canvas, started, dpr,
                   shownBy, arg, ret, afterReset, recyclable>>

\* The file does not decode: onload never fires and the first await never resumes.
ImgNeverLoads(i) ==
    /\ pipes[i].pc = "load"
    /\ pipes' = [pipes EXCEPT ![i].pc = "hung"]
    /\ UNCHANGED <<loading, detections, major, scores, hasImage, canvas, started, dpr,
                   shownBy, divByZero, arg, ret, afterReset, recyclable>>

\* The toBlob callback: null for a bitmap without pixels (and possibly otherwise).
BlobReady(i, isNull) ==
    /\ pipes[i].pc = "blob"
    /\ (pipes[i].tmpW = 0 \/ pipes[i].tmpH = 0) => isNull
    /\ IF isNull
       THEN /\ loading' = FALSE
            /\ pipes' = [pipes EXCEPT ![i].pc = "done", ![i].outcome = "noBlob"]
            /\ UNCHANGED canvas
       ELSE /\ canvas' = drawHighDPRCanvas(canvas, pipes[i].tmpW, pipes[i].tmpH)
            /\ pipes' = [pipes EXCEPT ![i].pc = "imgEl"]
            /\ UNCHANGED loading
    /\ UNCHANGED <<detections, major, scores, hasImage, started, dpr, shownBy, divByZero,
                   arg, ret, afterReset, recyclable>>

\* imgEl.onload fires: clear, draw the resized image, setHasImage(true), start fetch.
ImgElLoaded(i) ==
    /\ pipes[i].pc = "imgEl"
    /\ canvas' = [clearRect(canvas, pipes[i].tmpW, pipes[i].tmpH)
                    EXCEPT !.image = [by |-> i, w |-> pipes[i].tmpW, h |-> pipes[i].tmpH]]
    /\ hasImage' = TRUE
    /\ pipes' = [pipes EXCEPT ![i].pc = "fetch"]
    /\ UNCHANGED <<loading, detections, major, scores, started, dpr, shownBy, divByZero,
                   arg, ret, afterReset, recyclable>>

\* The catch block and the setLoading(false) after it.
Caught(i) ==
    /\ loading' = FALSE
    /\ pipes' = [pipes EXCEPT ![i].pc = "done", ![i].outcome = "error"]
    /\ UNCHANGED <<detections, major, scores, hasImage, canvas, started, dpr, shownBy,
                   divByZero, arg, ret, afterReset, recyclable>>

\* await fetch('/predict'): resolves with res.ok, resolves with !res.ok, or rejects.
FetchSettles(i, how) ==
    /\ pipes[i].pc = "fetch"
    /\ IF how = "ok"
       THEN /\ pipes' = [pipes EXCEPT ![i].pc = "json"]
            /\ UNCHANGED <<loading, detections, major, scores, hasImage, canvas, started,
                           dpr, shownBy, divByZero, arg, ret, afterReset, recyclable>>
       ELSE Caught(i)

\* The strokes of dets.forEach, in order.
RECURSIVE Strokes(_, _, _, _, _)
Strokes(dets, k, scaleX, scaleY, i) ==
    IF k > Len(dets) THEN <<>>
    ELSE <<StrokeOf(dets[k], scaleX, scaleY, i)>> \o Strokes(dets, k + 1, scaleX, scaleY, i)

\* await res.json() resolves with data: the state writes and the box drawing.
JsonResolves(i, data) ==
    /\ pipes[i].pc = "json"
    /\ LET dets == data.detections
           majorFromServer == IF data.major_category # Null /\ data.major_category # <<>>
                              THEN data.major_category ELSE Null
           scaleX == [n |-> pipes[i].tmpW, d |-> pipes[i].nw]
           scaleY == [n |-> pipes[i].tmpH, d |-> pipes[i].nh]
       IN  /\ detections' = dets
           /\ major' = majorFromServer
           /\ scores' = data.scores_by_category
           /\ canvas' = [canvas EXCEPT !.lineWidth = LineWidth(canvas),
                                       !.strokes = @ \o Strokes(dets, 1, scaleX, scaleY, i)]
           /\ pipes' = [pipes EXCEPT ![i].pc = "done", ![i].outcome = "ok",
                                     ![i].scaleX = scaleX, ![i].scaleY = scaleY,
                                     ![i].major_category = data.major_category]
    /\ shownBy' = i
    /\ loading' = FALSE
    /\ UNCHANGED <<hasImage, started, dpr, divByZero, arg, ret, afterReset, recyclable>>

\* await res.json() rejects.
JsonRejects(i) ==
    /\ pipes[i].pc = "json"
    /\ Caught(i)

reset ==
    /\ detections' = <<>>
    /\ major' = Null
    /\ scores' = NullScores
    /\ hasImage' = FALSE
    /\ canvas' = clearRect(canvas, canvas.width, canvas.height)
    /\ shownBy' = 0
    /\ afterReset' = TRUE
    /\ UNCHANGED <<loading, pipes, started, dpr, divByZero, arg, ret, recyclable>>

\* ------------------------------------------------------------------ earlier component

\* The strokeRect, fillRect and fillText calls of one detection in onPick: the
\* server's coordinates are used as they are.
onPick_StrokeOf(d, i) ==
    LET x1 == d.bbox[1]
        y1 == d.bbox[2]
        x2 == d.bbox[3]
        y2 == d.bbox[4]
    IN  [x |-> x1, y |-> y1, w |-> x2 - x1, h |-> y2 - y1, by |-> i,
         chipX |-> x1, chipY |-> Max(0, y1 - ChipRise),
         textX |-> x1 + TextPadX, textY |-> Max(0, y1 - onPick_TextRise)]

RECURSIVE onPick_Strokes(_, _, _)
onPick_Strokes(dets, k, i) ==
    IF k > Len(dets) THEN <<>>
    ELSE <<onPick_StrokeOf(dets[k], i)>> \o onPick_Strokes(dets, k + 1, i)

\* onPick with a file, up to its first await.
onPick_Start ==
    /\ started < Cardinality(Uploads)
    /\ started' = started + 1
    /\ loading' = TRUE
    /\ pipes' = [pipes EXCEPT ![started + 1].pc = "load"]
    /\ afterReset' = FALSE
    /\ UNCHANGED <<detections, major, scores, hasImage, canvas, dpr, shownBy, divByZero,
                   arg, ret, recyclable>>

\* img.onload fires: resizeImageCanvas(img, 640), then toBlob is requested.
onPick_ImgLoaded(i, naturalWidth, naturalHeight) ==
    /\ pipes[i].pc = "load"
    /\ LET tmp == resizeImageCanvas(naturalWidth, naturalHeight, onPick_MaxWidth)
       IN  pipes' = [pipes EXCEPT ![i].pc = "blob",
                                  ![i].nw = naturalWidth, ![i].nh = naturalHeight,
                                  ![i].targetCssW = onPick_MaxWidth,
                                  ![i].tmpW = tmp.width, ![i].tmpH = tmp.height]
    /\ divByZero' = (divByZero \/ naturalWidth = 0)
    /\ UNCHANGED <<loading, detections, major, scores, hasImage, canvas, started, dpr,
                   shownBy, arg, ret, afterReset, recyclable>>

\* imgEl.onload fires: the resized image is drawn, then fetch starts.
onPick_ImgElLoaded(i) ==
    /\ pipes[i].pc = "imgEl"
    /\ canvas' = [canvas EXCEPT !.image = [by |-> i, w |-> pipes[i].tmpW, h |-> pipes[i].tmpH]]
    /\ pipes' = [pipes EXCEPT ![i].pc = "fetch"]
    /\ UNCHANGED <<loading, detections, major, scores, hasImage, started, dpr, shownBy,
                   divByZero, arg, ret, afterReset, recyclable>>

\* await res.json() resolves with data, Boolean(data.recyclable) being rec.
onPick_JsonResolves(i, data, rec) ==
    /\ pipes[i].pc = "json"
    /\ LET dets == data.detections
       IN  /\ detections' = dets
           /\ recyclable' = IF rec THEN "true" ELSE "false"
           /\ canvas' = [canvas EXCEPT !.lineWidth = LineWidth(canvas),
                                       !.strokes = @ \o onPick_Strokes(dets, 1, i)]
           /\ pipes' = [pipes EXCEPT ![i].pc = "done", ![i].outcome = "ok"]
    /\ shownBy' = i
    /\ loading' = FALSE
    /\ UNCHANGED <<major, scores, hasImage, started, dpr, divByZero, arg, ret, afterReset>>

onPick_reset ==
    /\ detections' = <<>>
    /\ recyclable' = "null"
    /\ canvas' = clearRect(canvas, canvas.width, canvas.height)
    /\ shownBy' = 0
    /\ afterReset' = TRUE
    /\ UNCHANGED <<loading, major, scores, hasImage, pipes, started, dpr, divByZero,
                   arg, ret>>

\* ------------------------------------------------------------------ inputs

Bbox(a, b) == <<a, b, a + 1, b + 2>>

Det(name, conf, box) == [class_name |-> name, confidence |-> conf, bbox |-> box]

ClassNames ==
    {<<"RECY_SHORT", "HYPHEN", "X">>, <<"HAZARD", "EMDASH", "X">>, <<"KITCHEN">>,
     <<"OTHER_ALT1", "FWHYPHEN", "X">>}

ConfLevels == {-1, 0, 1, 2}

DetLists == SeqsUpTo({Det(c, v, Bbox(0, 0)) : c \in ClassNames, v \in ConfLevels}, MaxDets)

Response(dets, m) ==
    [detections |-> dets, major_category |-> m,
     scores_by_category |-> [isNull |-> FALSE, entries |-> <<>>]]

\* Responses of the concurrency specification: told apart by their content.
SmallResponses ==
    {Response(<<Det(<<"KITCHEN">>, 2, Bbox(1, 1))>>, Str("KITCHEN")),
     Response(<<Det(<<"HAZARD", "EMDASH", "X">>, 1, Bbox(0, 0))>>, Null),
     Response(<<>>, Null)}

\* Responses of the geometry specification: at most one box, anywhere.
GeomResponses ==
    {Response(<<>>, Null)} \cup
    {Response(<<Det(<<"KITCHEN">>, 2, Bbox(a, b))>>, Null) : a \in 0..MaxCoord, b \in 0..MaxCoord}

\* Image and container sizes around the sizes where the stroke width changes.
DrawDims == {MaxDim, 499, 500, 700, 1400}

\* Top edges of boxes: some nearer to the top of the canvas than the chip is high.
ChipYs == {y \in 0..(ChipRise + MaxCoord) : y % 3 = 0 \/ y \in (ChipRise - 1)..(ChipRise + 1)}

\* Responses of the drawing specifications: up to two boxes at various heights.
DrawResponses ==
    {Response(<<>>, Null)} \cup
    {Response(<<Det(<<"KITCHEN">>, 2, Bbox(0, b))>>, Null) : b \in ChipYs} \cup
    {Response(<<Det(<<"KITCHEN">>, 2, Bbox(0, b)), Det(<<"KITCHEN">>, 2, Bbox(1, c))>>, Null) :
        b \in ChipYs, c \in ChipYs}

\* ------------------------------------------------------------------ specifications

Init ==
    /\ CompInit(MaxUploads, {2})
    /\ arg = <<>>
    /\ ret = Pending

Next ==
    \/ StartUpload
    \/ \E i \in Uploads, nw \in {0, 2, 4} : ImgLoaded(i, nw, 2, 2)
    \/ \E i \in Uploads : ImgNeverLoads(i)
    \/ \E i \in Uploads, isNull \in BOOLEAN : BlobReady(i, isNull)
    \/ \E i \in Uploads : ImgElLoaded(i)
    \/ \E i \in Uploads, how \in {"ok", "notOk", "reject"} : FetchSettles(i, how)
    \/ \E i \in Uploads, data \in SmallResponses : JsonResolves(i, data)
    \/ \E i \in Uploads : JsonRejects(i)
    \/ reset

Spec == Init /\ [][Next]_vars

InitGeom ==
    /\ CompInit(1, {1, 2, 3})
    /\ arg = <<>>
    /\ ret = Pending

NextGeom ==
    \/ StartUpload
    \/ \E nw \in 0..MaxDim, nh \in 0..MaxDim, cw \in 0..MaxDim : ImgLoaded(1, nw, nh, cw)
    \/ \E isNull \in BOOLEAN : BlobReady(1, isNull)
    \/ ImgElLoaded(1)
    \/ FetchSettles(1, "ok")
    \/ \E data \in GeomResponses : JsonResolves(1, data)

SpecGeom == InitGeom /\ [][NextGeom]_vars

\* One handleFile pipeline over large images: stroke width and label chips.
InitDraw ==
    /\ CompInit(1, {1, 2, 3})
    /\ arg = <<>>
    /\ ret = Pending

NextDraw ==
    \/ StartUpload
    \/ \E nw \in DrawDims, nh \in DrawDims, cw \in {500, 700, 1400} : ImgLoaded(1, nw, nh, cw)
    \/ BlobReady(1, FALSE)
    \/ ImgElLoaded(1)
    \/ FetchSettles(1, "ok")
    \/ \E data \in DrawResponses : JsonResolves(1, data)

SpecDraw == InitDraw /\ [][NextDraw]_vars

\* One onPick pipeline of the earlier component.
InitLegacy ==
    /\ CompInit(1, {1, 2, 3})
    /\ arg = <<>>
    /\ ret = Pending

NextLegacy ==
    \/ onPick_Start
    \/ \E nw \in {MaxDim, 500, 1400}, nh \in {MaxDim, 500, 1400} : onPick_ImgLoaded(1, nw, nh)
    \/ \E isNull \in BOOLEAN : BlobReady(1, isNull)
    \/ onPick_ImgElLoaded(1)
    \/ \E how \in {"ok", "notOk", "reject"} : FetchSettles(1, how)
    \/ \E data \in DrawResponses, rec \in BOOLEAN : onPick_JsonResolves(1, data, rec)
    \/ JsonRejects(1)
    \/ onPick_reset

SpecLegacy == InitLegacy /\ [][NextLegacy]_vars

\* The browser settles every pending promise of a pipeline that can settle; an image
\* that does not decode (ImgNeverLoads) leaves nothing to settle.
Settles(i) ==
    \/ \E nw \in {0, 2, 4} : ImgLoaded(i, nw, 2, 2)
    \/ \E isNull \in BOOLEAN : BlobReady(i, isNull)
    \/ ImgElLoaded(i)
    \/ \E how \in {"ok", "notOk", "reject"} : FetchSettles(i, how)
    \/ \E data \in SmallResponses : JsonResolves(i, data)
    \/ JsonRejects(i)

SpecLive == Init /\ [][Next]_vars /\ \A i \in 1..MaxUploads : WF_vars(Settles(i))

CallExtractRoot ==
    /\ ret = Pending
    /\ ret' = extractRootCategory(arg)
    /\ UNCHANGED <<compVars, arg>>

InitNorm ==
    /\ CompInit(1, {1})
    /\ arg \in Labels
    /\ ret = Pending

NextNorm == CallExtractRoot

SpecNorm == InitNorm /\ [][NextNorm]_vars

CallDeriveMajor ==
    /\ ret = Pending
    /\ ret' = deriveMajor(arg)
    /\ UNCHANGED <<compVars, arg>>

InitAgg ==
    /\ CompInit(1, {1})
    /\ arg \in DetLists
    /\ ret = Pending

NextAgg == CallDeriveMajor

SpecAgg == InitAgg /\ [][NextAgg]_vars

\* ------------------------------------------------------------------ claims

\* The step in which invocation i writes detections, major and scores and draws its boxes.
WritesOutput(i) ==
    /\ pipes[i].pc = "json"
    /\ pipes'[i].pc = "done"
    /\ pipes'[i].outcome = "ok"

\* C1: once a later upload has started, an earlier pipeline never writes detections,
\* major or scores and never draws its boxes: every step that writes a pipeline's
\* output is a step of the most recently started upload.
C1_StaleOutputDiscarded ==
    [][\A i \in Uploads : WritesOutput(i) => i = started]_vars

\* The four canonical macro-category keys.
CanonicalKeys == {Str("KITCHEN"), Str("RECYCLABLE"), Str("OTHER"), Str("HAZARD")}

\* Reference: the sum of the confidences of the detections whose root is k.
RECURSIVE Total(_, _)
Total(dets, k) ==
    IF dets = <<>> THEN 0
    ELSE (IF extractRootCategory(Head(dets).class_name) = k
          THEN OrZero(Head(dets).confidence) ELSE 0) + Total(Tail(dets), k)

RootsOf(dets) == {extractRootCategory(dets[i].class_name) : i \in 1..Len(dets)}

TopTied(dets) ==
    {k \in RootsOf(dets) : \A o \in RootsOf(dets) : Total(dets, k) >= Total(dets, o)}

\* recyclable > hazardous-waste > kitchen-waste > other-waste
Rank(k) ==
    CASE k = Str("RECYCLABLE") -> 1
      [] k = Str("HAZARD") -> 2
      [] k = Str("KITCHEN") -> 3
      [] OTHER -> 4

\* C2: when two or more of the four macro-categories share the greatest summed score,
\* deriveMajor returns the tied category that is highest in the fixed priority order.
C2_TieBrokenByPriority ==
    (ret # Pending /\ Cardinality(TopTied(arg)) >= 2 /\ TopTied(arg) \subseteq CanonicalKeys)
        => /\ ret \in TopTied(arg)
           /\ \A k \in TopTied(arg) : Rank(ret) <= Rank(k)

\* C3: the normalizer never returns a string other than the four canonical keys
\* (the code has no error path, so every call returns).
C3_OnlyCanonicalKeys ==
    ret # Pending => ret \in CanonicalKeys

\* Reference normalizer of C4.
FirstDash(s) ==
    IF \E i \in 1..Len(s) : s[i] \in Dashes
    THEN CHOOSE i \in 1..Len(s) : s[i] \in Dashes /\ \A j \in 1..(i - 1) : s[j] \notin Dashes
    ELSE Len(s) + 1

RefHead(s) ==
    LET before == SubSeq(s, 1, FirstDash(s) - 1)
        solid  == {i \in 1..Len(before) : before[i] # "SP"}
    IN  IF solid = {} THEN <<>>
        ELSE SubSeq(before, CHOOSE i \in solid : \A j \in solid : i <= j,
                            CHOOSE i \in solid : \A j \in solid : i >= j)

RefRoot(s) ==
    CASE RefHead(s) \in {Str("OTHER_ALT1"), Str("OTHER_ALT2")} -> Str("OTHER")
      [] RefHead(s) = Str("RECY_SHORT") -> Str("RECYCLABLE")
      [] RefHead(s) = <<>> -> s
      [] OTHER -> RefHead(s)

\* C4: extractRootCategory returns the trimmed text before the first dash-family
\* separator, with the two alternate spellings of other-waste and the short form of
\* recyclable folded to the canonical keys, and the whole label when that head is empty.
C4_MatchesReference ==
    ret # Pending => ret = RefRoot(arg)

C4_Witness ==
    /\ arg = <<"SP", "RECY_SHORT", "FWHYPHEN">>
    /\ ret = Str("RECYCLABLE")

\* C5: for a non-empty list deriveMajor returns a category of the list whose summed
\* confidence is at least that of every other category.
C5_ReturnsGreatestSum ==
    (ret # Pending /\ arg # <<>>)
        => /\ ret \in RootsOf(arg)
           /\ \A k \in RootsOf(arg) : Total(arg, ret) >= Total(arg, k)

C5_Witness ==
    /\ ret # Pending
    /\ Len(arg) = 3
    /\ Cardinality(RootsOf(arg)) = 2
    /\ ret # extractRootCategory(arg[1].class_name)
    /\ Total(arg, ret) > arg[3].confidence
    /\ arg[3].confidence > 0
    /\ extractRootCategory(arg[3].class_name) = ret

\* C6: deriveMajor returns null exactly for the empty list.
C6_NullIffEmpty ==
    ret # Pending => (ret = Null <=> arg = <<>>)

C6_Witness ==
    /\ ret # Pending
    /\ ret # Null
    /\ Cardinality(RootsOf(arg)) >= 2
    /\ \A k \in RootsOf(arg) : Total(arg, k) = 0

\* Invocation i has drawn its boxes (lines 100-121 have run).
Drew(i) == pipes[i].pc = "done" /\ pipes[i].outcome = "ok"

RatEq(a, b) == a.n * b.d = b.n * a.d

\* min(1, targetWidth / sourceImageWidth) of the claim, for a positive source width.
RefRatio(p) ==
    IF p.targetCssW >= p.nw THEN [n |-> 1, d |-> 1] ELSE [n |-> p.targetCssW, d |-> p.nw]

\* C7 as stated: the scale applied to x equals the scale applied to y and equals
\* min(1, targetWidth / sourceImageWidth).
C7_UniformScale ==
    \A i \in Uploads : Drew(i) =>
        /\ RatEq(pipes[i].scaleX, pipes[i].scaleY)
        /\ RatEq(pipes[i].scaleX, RefRatio(pipes[i]))

\* C7 amended: the x scale equals min(1, targetWidth / sourceImageWidth); the y scale
\* is the rounded display height over the source height, which is within
\* 1 / (2 * sourceImageHeight) of that ratio.
C7_ScaleWithinRounding ==
    \A i \in Uploads : Drew(i) =>
        LET p == pipes[i]
            r == RefRatio(p)
        IN  /\ RatEq(p.scaleX, r)
            /\ 2 * Abs(p.scaleY.n * r.d - r.n * p.scaleY.d) <= r.d

C7_Witness ==
    \E i \in Uploads : Drew(i) /\ ~RatEq(pipes[i].scaleX, pipes[i].scaleY)

\* The box edges drawn for detection j by the invocation whose output is shown: the
\* source coordinate, the scale applied to it and the device-space coordinate the
\* canvas transform gives the strokeRect argument.
Edges(j) ==
    LET b == detections[j].bbox
        k == canvas.strokes[j]
        p == pipes[shownBy]
        t == canvas.transform
    IN  {[src |-> b[1], scale |-> p.scaleX, dev |-> k.x * t],
         [src |-> b[2], scale |-> p.scaleY, dev |-> k.y * t],
         [src |-> b[3], scale |-> p.scaleX, dev |-> (k.x + k.w) * t],
         [src |-> b[4], scale |-> p.scaleY, dev |-> (k.y + k.h) * t]}

DrawnEdges ==
    IF shownBy # 0 /\ Len(canvas.strokes) = Len(detections)
    THEN UNION {Edges(j) : j \in 1..Len(detections)}
    ELSE {}

\* The inverse mapping: device coordinate / devicePixelRatio / scale, as a fraction.
FromDevice(dev, scale) == [n |-> dev * scale.d, d |-> dpr * scale.n]

\* |FromDevice(e.dev) - e.src| in device pixels is ErrNum(e) / e.scale.d.
ErrNum(e) ==
    LET back == FromDevice(e.dev, e.scale)
    IN  Abs(back.n - e.src * back.d)

C10_ZeroWidthRejected ==
    /\ ~divByZero
    /\ \A i \in Uploads :
         (pipes[i].pc \notin {"idle", "load", "hung"} /\ pipes[i].nw = 0)
             => (pipes[i].pc = "done" /\ pipes[i].outcome = "invalidImage")

\* C11: the stroke width used for the boxes equals
\* max(2, floor(min(canvas.width, canvas.height) / devicePixelRatio)).
C11_StrokeWidthFloorOfCssSide ==
    Drew(1) => canvas.lineWidth = Max(2, Min(canvas.width, canvas.height) \div dpr)

\* C11 (amended): the stroke width is at least 2 and, above 2, it is the integer
\* nearest to min(canvas.width, canvas.height) / (devicePixelRatio * 200), halves
\* going up; it is 2 exactly when that quotient is below 2.5.
C11_StrokeWidthRoundedOver200 ==
    Drew(1) =>
        LET m  == IF canvas.width <= canvas.height THEN canvas.width ELSE canvas.height
            q  == dpr * LineWidthDivisor
            lw == canvas.lineWidth
        IN  /\ lw >= 2
            /\ lw > 2 => (2 * lw * q - q <= 2 * m /\ 2 * m < 2 * lw * q + q)
            /\ lw = 2 => 2 * m < 5 * q

C11_Witness == Drew(1) /\ canvas.lineWidth > 2 /\ canvas.strokes # <<>>

\* C12: in both box-drawing loops every label chip has its top at y >= 0 and the
\* label text sits inside the chip at one fixed horizontal and vertical offset
\* from the chip's top-left corner, for clamped and unclamped chips alike.
C12_LabelAtFixedOffsetInChip ==
    \A j \in DOMAIN canvas.strokes, k \in DOMAIN canvas.strokes :
        LET s == canvas.strokes[j]
            t == canvas.strokes[k]
        IN  /\ s.chipY >= 0
            /\ s.textX - s.chipX = t.textX - t.chipX
            /\ s.textY - s.chipY = t.textY - t.chipY
            /\ s.textY - s.chipY \in 1..ChipHeight

\* C13: after every successful response the displayed major is the server's
\* major_category when that is a non-empty string and deriveMajor(detections)
\* otherwise.
C13_FallbackToDeriveMajor ==
    shownBy # 0 =>
        LET fromServer == pipes[shownBy].major_category
        IN  major = IF fromServer # Null /\ fromServer # <<>>
                    THEN fromServer ELSE deriveMajor(detections)

\* C14: every upload that starts eventually sets loading back to false, also when
\* the image never decodes.
C14_EveryUploadFinishes ==
    \A i \in 1..MaxUploads : (pipes[i].pc = "load") ~> (pipes[i].pc = "done")

\* C15: whenever at least one upload pipeline is in flight, loading is true.
C15_LoadingWhileInFlight ==
    (\E i \in Uploads : pipes[i].pc \notin {"idle", "done"}) => loading

\* C16: from reset until the next pick or drop, detections are empty, major and
\* scores are null, hasImage is false and the canvas is clear, also when an upload
\* was in flight at the time of reset.
C16_ResetPersists ==
    afterReset =>
        /\ detections = <<>>
        /\ major = Null
        /\ scores = NullScores
        /\ hasImage = FALSE
        /\ canvas.image = NoImage
        /\ canvas.strokes = <<>>

====
